---------------------------- MODULE Spec2Model ----------------------------
(***************************************************************************)
(* Model of the concurrent upload orchestrator of immich-go (main.go):     *)
(* Application.Run (the directory walk, the dispatcher loop, the drain)    *)
(* and the task closure built by Application.Upload, run by the workers.   *)
(*                                                                         *)
(* The Worker pool (NewWorker, Run, Push, stop) and immich.StringList      *)
(* (Includes, Push) are not part of main.go; they are modelled from their  *)
(* contracts in sections 4.1 and 4.3 of the specification.                 *)
(***************************************************************************)
EXTENDS Integers, Sequences, FiniteSets, TLC

(* ------------------------------ bounds -------------------------------- *)

\* longest list of files the walk delivers
MaxAssets == 3

\* app.Threads, the number of workers of the pool
NumWorkers == 2

(* ------------------------------ inputs -------------------------------- *)

\* the local files of the model: a name (a sequence of characters) and a size
LocalFiles ==
    { [name |-> <<"a", " ">>, size |-> 1],
      [name |-> <<"b">>,      size |-> 10] }

\* the errors AssetUpload can return, "nil" being success
UploadResults ==
    { "nil", "LocalFileError", "UnsupportedMedia", "TooManyInternalError", "Other" }

Workers == 1..NumWorkers

(* --------------------------- pure functions --------------------------- *)

Whitespace == { " ", "\t", "\n" }

\* stripSpaces.ReplaceAllString(s, ""): every run of whitespace is removed
StripSpaces(s) == SelectSeq(s, LAMBDA c : c \notin Whitespace)

Digit(d) == <<"0", "1", "2", "3", "4", "5", "6", "7", "8", "9">>[d + 1]

\* strconv.FormatInt(n, 10) for n >= 0
RECURSIVE FormatInt(_)
FormatInt(n) ==
    IF n < 10 THEN <<Digit(n)>>
    ELSE FormatInt(n \div 10) \o <<Digit(n % 10)>>

\* filepath.Base for a name without trailing separators
RECURSIVE Base(_)
Base(s) ==
    IF s = <<>> THEN <<".">>
    ELSE IF \E i \in 1..Len(s) : s[i] = "/"
         THEN Base(Tail(s))
         ELSE s

\* the fingerprint of a file: name + "-" + size, spaces stripped
AssetID(f) == StripSpaces(Base(f.name \o <<"-">> \o FormatInt(f.size)))

\* immich.StringList.Includes
Includes(list, id) == id \in list

\* immich.StringList.Push
Push(list, id) == list \cup {id}

(* ------------------------------- state -------------------------------- *)

VARIABLES
    files,                \* the files the walk finds, in walk order
    inventory,            \* the answer of GetUserAssetsByDeviceId
    OnLineAssets,         \* app.OnLineAssets, the registry
    localAssets,          \* the list the walk builds
    walked,               \* number of files the walk has handled
    dpc,                  \* position of Application.Run
    idx,                  \* index of the asset loop in localAssets
    poolState,            \* lifecycle of app.Worker
    queue,                \* tasks pushed and not yet taken by a worker
    worker,               \* the task each worker runs, 0 when idle
    pc,                   \* per file: position or outcome of its task
    err,                  \* per file: what AssetUpload returned to its task
    runs,                 \* per file: how many times a worker started its task
    tooManyServerErrors,  \* app.tooManyServerErrors: "nil", "open" or "closed"
    mediaCount,           \* app.mediaCount
    crashed,              \* a goroutine panicked: the process is gone
    outcomes,             \* per file: the outcomes the run has given it, in order
    ret,                  \* what Run returned: "none" while it runs, "nil" for no error
    atCall                \* per file: whether its task has called AssetUpload,
                          \* and what held when it did

vars == << files, inventory, OnLineAssets, localAssets, walked, dpc, idx,
           poolState, queue, worker, pc, err, runs, tooManyServerErrors,
           mediaCount, crashed, outcomes, ret, atCall >>

Outcomes ==
    { "Uploaded", "SkippedAlreadyClaimed", "SkippedUnsupported",
      "FailedFatal", "FailedOther" }

\* the file a localAssets entry was built from, and its fingerprint
FileIDs == { AssetID(f) : f \in LocalFiles }

SeqsUpTo(S, n) == UNION { [1..k -> S] : k \in 1..n }

Init ==
    /\ files \in SeqsUpTo(LocalFiles, MaxAssets)
    /\ inventory \in SUBSET FileIDs
    /\ OnLineAssets = inventory
    /\ localAssets = <<>>
    /\ walked = 0
    /\ dpc = "walk"
    /\ idx = 1
    /\ poolState = "Created"
    /\ queue = <<>>
    /\ worker = [w \in Workers |-> 0]
    /\ pc = [k \in 1..Len(files) |-> "none"]
    /\ err = [k \in 1..Len(files) |-> "none"]
    /\ runs = [k \in 1..Len(files) |-> 0]
    /\ tooManyServerErrors = "nil"
    /\ mediaCount = 0
    /\ crashed = FALSE
    /\ outcomes = [k \in 1..Len(files) |-> <<>>]
    /\ ret = "none"
    /\ atCall = [k \in 1..Len(files) |->
                    [called |-> FALSE, tripped |-> FALSE, failed |-> FALSE]]


(* ------------------- Application.Run: the walk ------------------------ *)

\* mutant: the callback logs the file as already uploaded and goes on to
\* append it (the return of main.go 150 is missing)
WalkWithoutReturn ==
    /\ ~crashed
    /\ dpc = "walk"
    /\ walked < Len(files)
    /\ LET k  == walked + 1
           id == AssetID(files[k])
       IN  /\ walked' = k
           /\ localAssets' = Append(localAssets, [ID |-> id, Path |-> k])
           /\ outcomes' =
                IF Includes(OnLineAssets, id)
                THEN [outcomes EXCEPT ![k] = Append(@, "SkippedAlreadyClaimed")]
                ELSE outcomes
    /\ UNCHANGED << ret, atCall, files, inventory, OnLineAssets, dpc, idx,
                    poolState, queue, worker, pc, err, runs,
                    tooManyServerErrors, mediaCount, crashed >>

\* one call of the WalkDir callback for a regular file (main.go 142-157): a
\* file whose fingerprint the registry includes is logged as already uploaded
\* and left out of localAssets
Walk ==
    /\ ~crashed
    /\ dpc = "walk"
    /\ walked < Len(files)
    /\ LET k  == walked + 1
           id == AssetID(files[k])
       IN  /\ walked' = k
           /\ IF Includes(OnLineAssets, id)
              THEN /\ localAssets' = localAssets
                   /\ outcomes' = [outcomes EXCEPT ![k] = Append(@, "SkippedAlreadyClaimed")]
              ELSE /\ localAssets' = Append(localAssets, [ID |-> id, Path |-> k])
                   /\ outcomes' = outcomes
    /\ UNCHANGED << ret, atCall, files, inventory, OnLineAssets, dpc, idx, poolState, queue,
                    worker, pc, err, runs, tooManyServerErrors, mediaCount,
                    crashed >>

\* the walk is over and found nothing to upload: Run returns (main.go 164-167)
NoLocalAssets ==
    /\ ~crashed
    /\ dpc = "walk"
    /\ walked = Len(files)
    /\ Len(localAssets) = 0
    /\ dpc' = "done"
    /\ ret' = "nil"
    /\ UNCHANGED << outcomes, atCall, files, inventory, OnLineAssets, localAssets, walked, idx,
                    poolState, queue, worker, pc, err, runs,
                    tooManyServerErrors, mediaCount, crashed >>

\* mutant: the stop function Worker.Run returns is called at once
StartWorkerAndStop ==
    /\ ~crashed
    /\ dpc = "walk"
    /\ walked = Len(files)
    /\ Len(localAssets) > 0
    /\ poolState' = "Draining"
    /\ tooManyServerErrors' = "open"
    /\ dpc' = "loop"
    /\ UNCHANGED << outcomes, ret, atCall, files, inventory, OnLineAssets,
                    localAssets, walked, idx, queue, worker, pc, err, runs,
                    mediaCount, crashed >>

\* NewWorker, Worker.Run and make(chan any) (main.go 180-182)
StartWorker ==
    /\ ~crashed
    /\ dpc = "walk"
    /\ walked = Len(files)
    /\ Len(localAssets) > 0
    /\ poolState' = "Running"
    /\ tooManyServerErrors' = "open"
    /\ dpc' = "loop"
    /\ UNCHANGED << outcomes, ret, atCall, files, inventory, OnLineAssets, localAssets, walked, idx,
                    queue, worker, pc, err, runs, mediaCount, crashed >>

(* ----------------- Application.Run: the asset loop -------------------- *)

\* mutant: the receive is never ready (a receive on a nil channel)
ReceiveNeverReady(ch) == FALSE

\* case <-app.tooManyServerErrors is ready exactly when the channel is closed;
\* a select with a default takes a ready case
ReceiveReady(ch) == ch = "closed"

\* the range over localAssets is exhausted (main.go 185)
LoopExhausted ==
    /\ ~crashed
    /\ dpc = "loop"
    /\ idx > Len(localAssets)
    /\ dpc' = "stop"
    /\ UNCHANGED << outcomes, ret, atCall, files, inventory, OnLineAssets, localAssets, walked, idx,
                    poolState, queue, worker, pc, err, runs,
                    tooManyServerErrors, mediaCount, crashed >>

\* mutant: on the trip Run returns an error at once instead of breaking out
\* of the loop to stop()
SelectReturnsOnTrip ==
    /\ ~crashed
    /\ dpc = "loop"
    /\ idx <= Len(localAssets)
    /\ IF ReceiveReady(tooManyServerErrors)
       THEN dpc' = "done" /\ ret' = "TooManyServerErrors"
       ELSE dpc' = "includes" /\ ret' = ret
    /\ UNCHANGED << outcomes, atCall, files, inventory, OnLineAssets,
                    localAssets, walked, idx, poolState, queue, worker, pc,
                    err, runs, tooManyServerErrors, mediaCount, crashed >>

\* the select of one iteration (main.go 186-190)
Select ==
    /\ ~crashed
    /\ dpc = "loop"
    /\ idx <= Len(localAssets)
    /\ dpc' = IF ReceiveReady(tooManyServerErrors) THEN "stop" ELSE "includes"
    /\ UNCHANGED << outcomes, ret, atCall, files, inventory, OnLineAssets, localAssets, walked, idx,
                    poolState, queue, worker, pc, err, runs,
                    tooManyServerErrors, mediaCount, crashed >>

\* mutant: the dispatcher submits without consulting the registry
DispatchWithoutCheck ==
    /\ ~crashed
    /\ dpc = "includes"
    /\ idx' = idx
    /\ dpc' = "upload"
    /\ UNCHANGED << outcomes, ret, atCall, files, inventory, OnLineAssets, localAssets, walked,
                    poolState, queue, worker, pc, err, runs,
                    tooManyServerErrors, mediaCount, crashed >>

\* the dispatcher's check of the registry (main.go 191-194)
DispatchIncludes ==
    /\ ~crashed
    /\ dpc = "includes"
    /\ IF Includes(OnLineAssets, localAssets[idx].ID)
       THEN /\ idx' = idx + 1
            /\ dpc' = "loop"
            /\ outcomes' = [outcomes EXCEPT ![localAssets[idx].Path] =
                                Append(@, "SkippedAlreadyClaimed")]
       ELSE /\ idx' = idx
            /\ dpc' = "upload"
            /\ outcomes' = outcomes
    /\ UNCHANGED << ret, atCall, files, inventory, OnLineAssets, localAssets, walked,
                    poolState, queue, worker, pc, err, runs,
                    tooManyServerErrors, mediaCount, crashed >>

\* app.Upload(a): the task closure is pushed to the pool (main.go 195, 203)
DispatchUpload ==
    /\ ~crashed
    /\ dpc = "upload"
    /\ LET k == localAssets[idx].Path
       IN  /\ queue' = Append(queue, k)
           /\ pc' = [pc EXCEPT ![k] = "queued"]
    /\ idx' = idx + 1
    /\ dpc' = "loop"
    /\ UNCHANGED << outcomes, ret, atCall, files, inventory, OnLineAssets, localAssets, walked,
                    poolState, worker, err, runs, tooManyServerErrors,
                    mediaCount, crashed >>

(* ----------------------- Worker pool: stop() -------------------------- *)

\* stop() is called: the intake is closed (main.go 198)
Stop ==
    /\ ~crashed
    /\ dpc = "stop"
    /\ poolState' = "Draining"
    /\ dpc' = "drain"
    /\ UNCHANGED << outcomes, ret, atCall, files, inventory, OnLineAssets, localAssets, walked, idx,
                    queue, worker, pc, err, runs, tooManyServerErrors,
                    mediaCount, crashed >>

\* mutant: stop() waits for the queue only, not for the tasks in flight
DrainedQueueOnly(q, wk) == q = <<>>

\* what stop() waits for: no task queued, none in flight
Drained(q, wk) == q = <<>> /\ \A w \in Workers : wk[w] = 0

\* stop() returns and Run returns err, which is nil since the walk ended
\* without error (main.go 159-161, 198-199)
StopReturn ==
    /\ ~crashed
    /\ dpc = "drain"
    /\ Drained(queue, worker)
    /\ poolState' = "Stopped"
    /\ dpc' = "done"
    /\ ret' = "nil"
    /\ UNCHANGED << outcomes, atCall, files, inventory, OnLineAssets, localAssets, walked, idx,
                    queue, worker, pc, err, runs, tooManyServerErrors,
                    mediaCount, crashed >>

(* --------------------- Worker pool: the workers ----------------------- *)

\* an idle worker takes the oldest queued task
WorkerTake(w) ==
    /\ ~crashed
    /\ poolState \in { "Running", "Draining" }
    /\ worker[w] = 0
    /\ queue # <<>>
    /\ LET k == Head(queue)
       IN  /\ worker' = [worker EXCEPT ![w] = k]
           /\ pc' = [pc EXCEPT ![k] = "includes"]
           /\ runs' = [runs EXCEPT ![k] = @ + 1]
    /\ queue' = Tail(queue)
    /\ UNCHANGED << outcomes, ret, atCall, files, inventory, OnLineAssets, localAssets, walked, dpc,
                    idx, poolState, err, tooManyServerErrors, mediaCount,
                    crashed >>

(* ------------------ the task of Application.Upload -------------------- *)

\* mutant: the task logs the duplicate and goes on to claim and upload (the
\* return of main.go 206 is missing)
TaskIncludesWithoutReturn(w) ==
    /\ ~crashed
    /\ worker[w] # 0
    /\ LET k == worker[w]
       IN  /\ pc[k] = "includes"
           /\ pc' = [pc EXCEPT ![k] = "push"]
    /\ UNCHANGED << outcomes, ret, atCall, files, inventory, OnLineAssets,
                    localAssets, walked, dpc, idx, poolState, queue, worker,
                    err, runs, tooManyServerErrors, mediaCount, crashed >>

\* the task's re-check of the registry (main.go 204-207)
TaskIncludes(w) ==
    /\ ~crashed
    /\ worker[w] # 0
    /\ LET k == worker[w]
       IN  /\ pc[k] = "includes"
           /\ IF Includes(OnLineAssets, AssetID(files[k]))
              THEN /\ pc' = [pc EXCEPT ![k] = "SkippedAlreadyClaimed"]
                   /\ outcomes' = [outcomes EXCEPT ![k] = Append(@, "SkippedAlreadyClaimed")]
                   /\ worker' = [worker EXCEPT ![w] = 0]
              ELSE /\ pc' = [pc EXCEPT ![k] = "push"]
                   /\ outcomes' = outcomes
                   /\ worker' = worker
    /\ UNCHANGED << ret, atCall, files, inventory, OnLineAssets, localAssets, walked, dpc,
                    idx, poolState, queue, err, runs, tooManyServerErrors,
                    mediaCount, crashed >>

\* mutant: the task calls AssetUpload without having claimed the fingerprint
TaskPushSkipped(w) ==
    /\ ~crashed
    /\ worker[w] # 0
    /\ LET k == worker[w]
       IN  /\ pc[k] = "push"
           /\ pc' = [pc EXCEPT ![k] = "upload"]
    /\ UNCHANGED << outcomes, ret, atCall, files, inventory, OnLineAssets,
                    localAssets, walked, dpc, idx, poolState, queue, worker,
                    err, runs, tooManyServerErrors, mediaCount, crashed >>

\* the task claims its fingerprint (main.go 208)
TaskPush(w) ==
    /\ ~crashed
    /\ worker[w] # 0
    /\ LET k == worker[w]
       IN  /\ pc[k] = "push"
           /\ OnLineAssets' = Push(OnLineAssets, AssetID(files[k]))
           /\ pc' = [pc EXCEPT ![k] = "upload"]
    /\ UNCHANGED << outcomes, ret, atCall, files, inventory, localAssets, walked, dpc, idx, poolState,
                    queue, worker, err, runs, tooManyServerErrors, mediaCount,
                    crashed >>

\* what holds when the task of file k calls AssetUpload: whether the breaker
\* is tripped, and whether an upload for the same fingerprint has failed
CallContext(k) ==
    [ called  |-> TRUE,
      tripped |-> tooManyServerErrors = "closed",
      failed  |-> \E j \in 1..Len(files) :
                     /\ j # k
                     /\ AssetID(files[j]) = AssetID(files[k])
                     /\ err[j] \notin { "none", "nil" } ]

\* mutant: the task consults the breaker and gives up when it is tripped
TaskAssetUploadUnlessTripped(w) ==
    /\ ~crashed
    /\ worker[w] # 0
    /\ LET k == worker[w]
       IN  /\ pc[k] = "upload"
           /\ IF tooManyServerErrors = "closed"
              THEN /\ pc' = [pc EXCEPT ![k] = "FailedOther"]
                   /\ outcomes' = [outcomes EXCEPT ![k] = Append(@, "FailedOther")]
                   /\ worker' = [worker EXCEPT ![w] = 0]
                   /\ atCall' = atCall
              ELSE /\ pc' = [pc EXCEPT ![k] = "wait"]
                   /\ outcomes' = outcomes
                   /\ worker' = worker
                   /\ atCall' = [atCall EXCEPT ![k] = CallContext(k)]
    /\ UNCHANGED << ret, files, inventory, OnLineAssets, localAssets, walked,
                    dpc, idx, poolState, queue, err, runs,
                    tooManyServerErrors, mediaCount, crashed >>

\* the task calls app.Immich.AssetUpload (main.go 209)
TaskAssetUpload(w) ==
    /\ ~crashed
    /\ worker[w] # 0
    /\ LET k == worker[w]
       IN  /\ pc[k] = "upload"
           /\ pc' = [pc EXCEPT ![k] = "wait"]
           /\ atCall' = [atCall EXCEPT ![k] = CallContext(k)]
    /\ UNCHANGED << outcomes, ret, files, inventory, OnLineAssets, localAssets, walked, dpc,
                    idx, poolState, queue, worker, err, runs,
                    tooManyServerErrors, mediaCount, crashed >>

\* AssetUpload returns r to the task (main.go 209)
AssetUploadReturn(w, r) ==
    /\ ~crashed
    /\ worker[w] # 0
    /\ LET k == worker[w]
       IN  /\ pc[k] = "wait"
           /\ err' = [err EXCEPT ![k] = r]
           /\ pc' = [pc EXCEPT ![k] = "handle"]
    /\ UNCHANGED << outcomes, ret, atCall, files, inventory, OnLineAssets, localAssets, walked, dpc,
                    idx, poolState, queue, worker, runs, tooManyServerErrors,
                    mediaCount, crashed >>

\* mutant: the last else branch closes the channel too
ClassifyOtherAsFatal(e) ==
    CASE e = "nil" -> "success"
      [] e \in { "LocalFileError", "UnsupportedMedia" } -> "warn"
      [] OTHER -> "close"

\* the branch of the error handling an error takes (main.go 211-219)
Classify(e) ==
    CASE e = "nil" -> "success"
      [] e \in { "LocalFileError", "UnsupportedMedia" } -> "warn"
      [] e = "TooManyInternalError" -> "close"
      [] OTHER -> "log"

\* mutant: the counter is stored, not added to
AddAsStore(count) == 1

\* app.mediaCount.Add(1) (main.go 223)
Add(count) == count + 1

\* mutant: a failed upload gives its claim back
RegistryUnclaimOnError(list, id, e) == IF e = "nil" THEN list ELSE list \ {id}

\* the registry when the task returns: no branch touches it (main.go 211-230)
RegistryAtReturn(list, id, e) == list

\* mutant: the breaker is a toggle, a second trip re-opens it
CloseChanToggle(ch) ==
    IF ch = "open"
    THEN [ch |-> "closed", panic |-> FALSE]
    ELSE [ch |-> "open", panic |-> FALSE]

\* close(app.tooManyServerErrors): closing an open channel closes it, closing
\* a closed or nil channel panics (main.go 215)
CloseChan(ch) ==
    IF ch = "open"
    THEN [ch |-> "closed", panic |-> FALSE]
    ELSE [ch |-> ch, panic |-> TRUE]

\* the task handles what AssetUpload returned and ends (main.go 211-230)
TaskHandle(w) ==
    /\ ~crashed
    /\ worker[w] # 0
    /\ LET k  == worker[w]
           br == Classify(err[k])
           cl == CloseChan(tooManyServerErrors)
       IN  /\ pc[k] = "handle"
           /\ OnLineAssets' = RegistryAtReturn(OnLineAssets, AssetID(files[k]), err[k])
           /\ CASE br = "success" ->
                     /\ mediaCount' = Add(mediaCount)
                     /\ pc' = [pc EXCEPT ![k] = "Uploaded"]
                     /\ outcomes' = [outcomes EXCEPT ![k] = Append(@, "Uploaded")]
                     /\ worker' = [worker EXCEPT ![w] = 0]
                     /\ UNCHANGED << tooManyServerErrors, crashed >>
                [] br = "warn" ->
                     /\ pc' = [pc EXCEPT ![k] = "SkippedUnsupported"]
                     /\ outcomes' = [outcomes EXCEPT ![k] = Append(@, "SkippedUnsupported")]
                     /\ worker' = [worker EXCEPT ![w] = 0]
                     /\ UNCHANGED << tooManyServerErrors, mediaCount, crashed >>
                [] br = "close" /\ ~cl.panic ->
                     /\ tooManyServerErrors' = cl.ch
                     /\ pc' = [pc EXCEPT ![k] = "FailedFatal"]
                     /\ outcomes' = [outcomes EXCEPT ![k] = Append(@, "FailedFatal")]
                     /\ worker' = [worker EXCEPT ![w] = 0]
                     /\ UNCHANGED << mediaCount, crashed >>
                [] br = "close" /\ cl.panic ->
                     \* the panic of a goroutine ends the process
                     /\ crashed' = TRUE
                     /\ pc' = [pc EXCEPT ![k] = "panic"]
                     /\ UNCHANGED << outcomes, worker, tooManyServerErrors, mediaCount >>
                [] br = "log" ->
                     /\ pc' = [pc EXCEPT ![k] = "FailedOther"]
                     /\ outcomes' = [outcomes EXCEPT ![k] = Append(@, "FailedOther")]
                     /\ worker' = [worker EXCEPT ![w] = 0]
                     /\ UNCHANGED << tooManyServerErrors, mediaCount, crashed >>
    /\ UNCHANGED << ret, atCall, files, inventory, localAssets, walked, dpc, idx, poolState,
                    queue, err, runs >>

(* --------------------------- specification ---------------------------- *)

Next ==
    \/ Walk
    \/ NoLocalAssets
    \/ StartWorker
    \/ LoopExhausted
    \/ Select
    \/ DispatchIncludes
    \/ DispatchUpload
    \/ Stop
    \/ StopReturn
    \/ \E w \in Workers : WorkerTake(w)
    \/ \E w \in Workers : TaskIncludes(w)
    \/ \E w \in Workers : TaskPush(w)
    \/ \E w \in Workers : TaskAssetUpload(w)
    \/ \E w \in Workers, r \in UploadResults : AssetUploadReturn(w, r)
    \/ \E w \in Workers : TaskHandle(w)

Spec == Init /\ [][Next]_vars

\* the steps of the goroutine of Run
DispatcherStep ==
    \/ Walk
    \/ NoLocalAssets
    \/ StartWorker
    \/ LoopExhausted
    \/ Select
    \/ DispatchIncludes
    \/ DispatchUpload
    \/ Stop
    \/ StopReturn

\* the steps of the goroutine of worker w, the return of AssetUpload included
WorkerStep(w) ==
    \/ WorkerTake(w)
    \/ TaskIncludes(w)
    \/ TaskPush(w)
    \/ TaskAssetUpload(w)
    \/ \E r \in UploadResults : AssetUploadReturn(w, r)
    \/ TaskHandle(w)

\* the Go scheduler runs every goroutine that can run, and every call of
\* AssetUpload returns
FairSpec ==
    /\ Spec
    /\ WF_vars(DispatcherStep)
    /\ \A w \in Workers : WF_vars(WorkerStep(w))

(* ------------------------------ typing -------------------------------- *)

TypeOK ==
    /\ OnLineAssets \subseteq FileIDs
    /\ dpc \in { "walk", "loop", "includes", "upload", "stop", "drain", "done" }
    /\ poolState \in { "Created", "Running", "Draining", "Stopped" }
    /\ tooManyServerErrors \in { "nil", "open", "closed" }
    /\ mediaCount \in 0..Len(files)
    /\ ret \in { "none", "nil" }
    /\ \A k \in 1..Len(files) :
          /\ \A n \in 1..Len(outcomes[k]) : outcomes[k][n] \in Outcomes
          /\ atCall[k] \in [called : BOOLEAN, tripped : BOOLEAN, failed : BOOLEAN]
    /\ \A k \in 1..Len(files) :
          pc[k] \in Outcomes \cup { "none", "queued", "includes", "push",
                                    "upload", "wait", "handle", "panic" }


(* ------------------------------ properties ---------------------------- *)

Tasks == 1..Len(files)

\* the breaker has been tripped
Tripped == tooManyServerErrors = "closed"

\* the task of file k has reached the call of AssetUpload
Called(k) ==
    pc[k] \in { "wait", "handle", "panic", "Uploaded", "SkippedUnsupported",
                "FailedFatal", "FailedOther" }

\* the files whose task has been pushed to the pool
Submitted == { k \in Tasks : pc[k] # "none" }

\* the dispatcher has left the asset loop
LoopLeft == dpc \in { "stop", "drain", "done" }

\* stop() has returned to Run
StopReturned == dpc = "done" /\ poolState = "Stopped"

\* C1: of two tasks for the same fingerprint, absent from the registry at the
\* start, one only reaches the call of AssetUpload: in no state have both
\* reached it.
AtMostOneClaim ==
    \A i, j \in Tasks :
        ( /\ i # j
          /\ AssetID(files[i]) = AssetID(files[j])
          /\ AssetID(files[i]) \notin inventory )
        => ~(Called(i) /\ Called(j))

\* C2: every task that received TooManyInternalError and has handled it has
\* completed normally as FailedFatal, the first trip having closed the
\* breaker and every later one being a no-op.
TripIdempotent ==
    \A k \in Tasks :
        (err[k] = "TooManyInternalError" /\ pc[k] # "handle")
        => (pc[k] = "FailedFatal" /\ Tripped)

\* C3: an iteration of the asset loop that begins with the breaker tripped
\* leaves the loop, and once the loop is left no task is pushed and no
\* further candidate is visited.
EarlyStop ==
    [][ /\ (dpc = "loop" /\ Tripped) =>
            (dpc' \in { "loop", "stop" } /\ Submitted' = Submitted /\ idx' = idx)
        /\ LoopLeft =>
            (LoopLeft' /\ Submitted' = Submitted /\ idx' = idx) ]_vars

\* the loop was left by the break, with candidates not visited
EarlyStopWitness ==
    /\ dpc = "stop"
    /\ Tripped
    /\ idx <= Len(localAssets)

\* C4: when stop() has returned, every pushed task has run exactly once to
\* an outcome, none is queued or in flight, and no task ran that was not
\* pushed.
DrainComplete ==
    StopReturned =>
        /\ \A k \in Submitted : pc[k] \in Outcomes /\ runs[k] = 1
        /\ \A k \in Tasks \ Submitted : runs[k] = 0
        /\ Cardinality({ k \in Tasks : pc[k] \in Outcomes }) = Cardinality(Submitted)

\* stop() has returned after at least two tasks
DrainCompleteWitness ==
    /\ StopReturned
    /\ Cardinality(Submitted) >= 2

\* C5: no error of AssetUpload ends a task by a panic.
NoPanicEscapes == crashed = FALSE

\* C6: no step removes a fingerprint from the registry.
DedupMonotonic == [][OnLineAssets \subseteq OnLineAssets']_vars

\* a task whose upload failed has ended and its claim is still there
DedupMonotonicWitness ==
    \E k \in Tasks :
        /\ pc[k] \in { "SkippedUnsupported", "FailedFatal", "FailedOther" }
        /\ AssetID(files[k]) \in OnLineAssets \ inventory

\* C7: a file whose fingerprint is in the initial inventory is never pushed
\* (so never uploaded nor counted), and the dispatcher pushes nothing for a
\* candidate whose fingerprint the registry contains at its check.
SeededNeverUploaded ==
    /\ [](\A k \in Tasks : AssetID(files[k]) \in inventory => pc[k] = "none")
    /\ [][ (dpc = "includes" /\ localAssets[idx].ID \in OnLineAssets) =>
              (dpc' # "upload" /\ Submitted' = Submitted) ]_vars

\* a seeded file was walked, and the dispatcher has just skipped a candidate
\* whose fingerprint a task had claimed
SeededNeverUploadedWitness ==
    /\ \E k \in Tasks : AssetID(files[k]) \in inventory
    /\ dpc = "loop"
    /\ idx > 1
    /\ pc[localAssets[idx - 1].Path] = "none"

\* C8: as long as no AssetUpload has returned TooManyInternalError the breaker
\* is not tripped, and the asset loop is left only with every candidate
\* visited.
OnlyOverloadTrips ==
    (\A k \in Tasks : err[k] # "TooManyInternalError") =>
        /\ ~Tripped
        /\ ~crashed
        /\ LoopLeft => idx > Len(localAssets)

\* a candidate after a failed one has uploaded, with no overload in the run
OnlyOverloadTripsWitness ==
    /\ StopReturned
    /\ \A k \in Tasks : err[k] # "TooManyInternalError"
    /\ \E i, j \in Tasks :
          /\ i < j
          /\ pc[i] \in { "SkippedUnsupported", "FailedOther" }
          /\ pc[j] = "Uploaded"

\* C9: no step takes the breaker from tripped to not tripped.
BreakerIrreversible == [][Tripped => Tripped']_vars

\* the run has gone on after the trip
BreakerIrreversibleWitness ==
    /\ Tripped
    /\ StopReturned

\* C10: the counter is the number of tasks that have executed the increment
\* after a successful AssetUpload, and once stop() has returned it is the
\* number of AssetUpload calls that returned success.
CounterExact ==
    /\ mediaCount = Cardinality({ k \in Tasks : pc[k] = "Uploaded" })
    /\ StopReturned =>
          mediaCount = Cardinality({ k \in Tasks : err[k] = "nil" })

\* two uploads have been counted when stop() has returned
CounterExactWitness ==
    /\ StopReturned
    /\ mediaCount >= 2


\* the candidates the asset loop has not visited
Unvisited == { localAssets[p].Path : p \in idx..Len(localAssets) }

\* C11 as stated: when Run has returned every file has exactly one outcome.
ExactlyOneOutcome ==
    dpc = "done" => \A k \in Tasks : Len(outcomes[k]) = 1

\* C11 as amended: no file ever has two outcomes, and when Run has returned
\* every file the walk or the asset loop visited has exactly one, the files
\* left unvisited after a trip of the breaker having none.
OneOutcomeIfVisited ==
    /\ \A k \in Tasks : Len(outcomes[k]) <= 1
    /\ dpc = "done" =>
          \A k \in Tasks :
              Len(outcomes[k]) = IF k \in Unvisited THEN 0 ELSE 1

\* Run has returned after a trip, one file with its outcome, one unvisited
OneOutcomeIfVisitedWitness ==
    /\ dpc = "done"
    /\ \E k \in Unvisited : outcomes[k] = <<>>
    /\ \E k \in Tasks : outcomes[k] = <<"FailedFatal">>

\* C12: Run never returns an error; once the workers are started it returns
\* only after stop() has returned; the loop is left with candidates not
\* visited only when the breaker is tripped; and having left the loop the
\* next thing Run does is to call stop().
TripEndsRunCleanly ==
    /\ [](ret \in { "none", "nil" })
    /\ []((dpc = "done" /\ poolState # "Created") => poolState = "Stopped")
    /\ []((LoopLeft /\ idx <= Len(localAssets)) => Tripped)
    /\ [][ (dpc = "stop" /\ dpc' # dpc) =>
              (dpc' = "drain" /\ poolState' = "Draining") ]_vars

\* Run has returned nil after the break, stop() having drained the pool
TripEndsRunCleanlyWitness ==
    /\ StopReturned
    /\ ret = "nil"
    /\ Tripped
    /\ idx <= Len(localAssets)
    /\ \A k \in Submitted : pc[k] \in Outcomes

\* C13: under fair scheduling, once the workers are started the run reaches
\* the state where stop() has returned and the pool is Stopped.
Termination == (poolState = "Running") ~> StopReturned

\* C14: a task that has called AssetUpload, the call outstanding or returned,
\* has its fingerprint in the registry.
ClaimBeforeCall ==
    \A k \in Tasks :
        (Called(k) \/ atCall[k].called) => AssetID(files[k]) \in OnLineAssets

\* a call is outstanding for a fingerprint the task itself claimed
ClaimBeforeCallWitness ==
    \E k \in Tasks :
        /\ pc[k] = "wait"
        /\ AssetID(files[k]) \in OnLineAssets \ inventory

\* C15: a task whose re-check finds its fingerprint in the registry ends as
\* SkippedAlreadyClaimed in that step, which changes neither the registry nor
\* the counter nor the breaker, and it never calls AssetUpload.
SkipLeavesStateAlone ==
    /\ [](\A k \in Tasks :
            pc[k] = "SkippedAlreadyClaimed" =>
                (~atCall[k].called /\ err[k] = "none"))
    /\ [][ \A k \in Tasks :
             ( /\ pc[k] = "includes"
               /\ AssetID(files[k]) \in OnLineAssets
               /\ pc'[k] # pc[k] )
             => ( /\ pc'[k] = "SkippedAlreadyClaimed"
                  /\ OnLineAssets' = OnLineAssets
                  /\ mediaCount' = mediaCount
                  /\ tooManyServerErrors' = tooManyServerErrors
                  /\ atCall' = atCall ) ]_vars

\* a task has been skipped by its re-check, after the dispatcher let it pass
SkipLeavesStateAloneWitness ==
    \E k \in Tasks :
        /\ pc[k] = "SkippedAlreadyClaimed"
        /\ outcomes[k] = <<"SkippedAlreadyClaimed">>
        /\ runs[k] = 1

\* the position of a pool state in Created, Running, Draining, Stopped
PoolRank(st) ==
    CASE st = "Created"  -> 0
      [] st = "Running"  -> 1
      [] st = "Draining" -> 2
      [] st = "Stopped"  -> 3

\* C16: the pool goes from a state only to the next one of Created, Running,
\* Draining, Stopped, and a task is pushed only while the pool is Running.
PoolLifecycle ==
    [][ /\ PoolRank(poolState') \in { PoolRank(poolState), PoolRank(poolState) + 1 }
        /\ (Submitted' # Submitted \/ Len(queue') > Len(queue))
              => (poolState = "Running" /\ poolState' = "Running") ]_vars

\* the pool has gone through its whole life with tasks pushed
PoolLifecycleWitness ==
    /\ poolState = "Stopped"
    /\ Submitted # {}
    /\ idx > Len(localAssets)

\* C17: with the breaker tripped, the next step of a task pushed earlier is
\* the one it would take anyway: it is taken from the queue, re-checks the
\* registry, claims, and calls AssetUpload.
TasksIgnoreBreaker ==
    [][ \A k \in Tasks :
          (Tripped /\ pc'[k] # pc[k]) =>
              CASE pc[k] = "queued"   -> pc'[k] = "includes"
                [] pc[k] = "includes" ->
                     pc'[k] = IF AssetID(files[k]) \in OnLineAssets
                              THEN "SkippedAlreadyClaimed" ELSE "push"
                [] pc[k] = "push"     -> pc'[k] = "upload"
                [] pc[k] = "upload"   -> pc'[k] = "wait" /\ atCall'[k].called
                [] OTHER -> TRUE ]_vars

\* a task has called AssetUpload with the breaker already tripped
TasksIgnoreBreakerWitness ==
    \E k \in Tasks : atCall[k].called /\ atCall[k].tripped

\* C18: no task calls AssetUpload for a fingerprint for which an upload has
\* already failed.
NoSecondCallAfterFailure ==
    \A k \in Tasks : atCall[k].called => ~atCall[k].failed

=============================================================================
